---- MODULE Spec2Model ----
(***************************************************************************)
(* Booking-workflow orchestration of the crew layover system: the layover  *)
(* status machine (LayoverService), the hotel confirmation tokens          *)
(* (ConfirmationService / ConfirmationTokenRepository) and the background  *)
(* reminder/escalation jobs (SchedulerService).                            *)
(*                                                                         *)
(* Every database commit is one atomic step.  A handler that commits more  *)
(* than once (send_to_hotel, the three hotel responses) is a small        *)
(* process whose position is part of the state, so that                    *)
(* other requests interleave between its commits exactly where the         *)
(* database lets them.  Time is counted in whole hours.                    *)
(***************************************************************************)
EXTENDS Integers, Sequences, FiniteSets, TLC

VARIABLES now, layovers, tokens, ntok, send, resp, last

vars == <<now, layovers, tokens, ntok, send, resp, last>>

(***************************************************************************)
(* Bounds of the model.                                                    *)
(***************************************************************************)
MaxTime == 144
MaxTokens == 2

ClockSteps == {72}
Layovers == {1}
Hotels == {1}
Responders == {1, 2}
CheckInChoices == {72}
CheckInMinutes == {0}
CancelCheckIns == {24, 48, 72}
CancelCheckInMinutes == {0, 30}

(***************************************************************************)
(* Program constants.                                                      *)
(***************************************************************************)
TokenExpiryHours == 72
FirstReminderHours == 12
SecondReminderHours == 24
EscalationThresholdHours == 36
ChargeNoticeHours == 24

NULL == -1
NoPolicy == "NULL"
MinutesPerHour == 60
NoHotel == 0
NoToken == 0

TokenIds == 1..MaxTokens

Statuses ==
    {"DRAFT", "SENT", "PENDING", "CONFIRMED", "DECLINED", "CHANGES_REQUESTED",
     "ON_HOLD", "AMENDED", "ESCALATED", "COMPLETED", "CANCELLED"}

HotelActions == {"confirm", "decline", "request_changes"}

(***************************************************************************)
(* Rows of the two tables.                                                 *)
(***************************************************************************)
\* check_in_at and check_in_minute are check_in_date/check_in_time: the whole
\* hours and the minutes past the hour
NewLayover(h, ci, cm) ==
    [exists |-> TRUE, status |-> "DRAFT", hotel_id |-> h, check_in_at |-> ci,
     check_in_minute |-> cm,
     sent_at |-> NULL, pending_at |-> NULL, confirmed_at |-> NULL,
     declined_at |-> NULL, escalated_at |-> NULL, completed_at |-> NULL,
     cancelled_at |-> NULL, on_hold_at |-> NULL,
     reminder_count |-> 0, last_reminder_sent_at |-> NULL,
     reminders_paused |-> FALSE,
     amendment_count |-> 0, hotel_notified_of_amendment |-> FALSE,
     cancellation_notice_hours |-> NULL,
     cancellation_charge_applies |-> FALSE,
     cancellation_charge_policy |-> NoPolicy,
     cancellation_charge_percent |-> NULL]

DeletedLayover == [NewLayover(NoHotel, NULL, 0) EXCEPT !.exists = FALSE]

NoTokenRow ==
    [state |-> "free", layover_id |-> 0, hotel_id |-> NoHotel,
     expires_at |-> NULL, used_at |-> NULL, is_valid |-> FALSE]

NewTokenRow(l, h, exp) ==
    [state |-> "live", layover_id |-> l, hotel_id |-> h,
     expires_at |-> exp, used_at |-> NULL, is_valid |-> TRUE]

IdleResp == [pc |-> "idle", action |-> "none", token |-> NoToken]
\* the most recent request, what it answered, and whether it repeats the
\* request before it
NoCall ==
    [op |-> "none", arg |-> 0, hotel |-> NoHotel, outcome |-> "none",
     ret |-> NoToken, again |-> FALSE]

Call(op, arg, outcome) ==
    [op |-> op, arg |-> arg, hotel |-> NoHotel, outcome |-> outcome,
     ret |-> NoToken, again |-> FALSE]

(***************************************************************************)
(* ConfirmationTokenRepository                                             *)
(***************************************************************************)
GetByToken(t) == t \in TokenIds /\ tokens[t].state = "live"

ValidateToken(t) ==
    IF ~GetByToken(t) THEN "NotFound"
    ELSE IF ~tokens[t].is_valid THEN "AlreadyUsed"
    ELSE IF tokens[t].expires_at < now THEN "Expired"
    ELSE "ok"

IsExpired(t) == now > tokens[t].expires_at

IsUsable(t) ==
    tokens[t].is_valid /\ ~IsExpired(t) /\ tokens[t].used_at = NULL

\* get_active_hotel_token with the expiry comparison turned round
ActiveHotelTokensExpired(l, h) ==
    {t \in TokenIds : /\ tokens[t].state = "live"
                      /\ tokens[t].layover_id = l
                      /\ tokens[t].hotel_id = h
                      /\ tokens[t].is_valid
                      /\ tokens[t].expires_at < now}

\* the rows get_active_hotel_token filters for
ActiveHotelTokens(l, h) ==
    {t \in TokenIds : /\ tokens[t].state = "live"
                      /\ tokens[t].layover_id = l
                      /\ tokens[t].hotel_id = h
                      /\ tokens[t].is_valid
                      /\ tokens[t].expires_at > now}

Min(S) == CHOOSE x \in S : \A y \in S : x <= y

\* get_active_hotel_token: .first() of the filtered rows, the oldest one
GetActiveHotelToken(l, h) ==
    IF ActiveHotelTokens(l, h) = {} THEN NoToken ELSE Min(ActiveHotelTokens(l, h))

\* mark_as_used that records used_at but leaves is_valid as it was
MarkAsUsedStillValid(toks, t) ==
    [toks EXCEPT ![t] = [@ EXCEPT !.used_at = now]]

MarkAsUsed(toks, t) ==
    [toks EXCEPT ![t] = [@ EXCEPT !.used_at = now, !.is_valid = FALSE]]

InvalidateToken(toks, t) ==
    [toks EXCEPT ![t] = [@ EXCEPT !.is_valid = FALSE]]

CreateToken(toks, t, l, h) ==
    [toks EXCEPT ![t] = NewTokenRow(l, h, now + TokenExpiryHours)]

CascadeDelete(toks, l) ==
    [t \in TokenIds |->
        IF toks[t].state = "live" /\ toks[t].layover_id = l
        THEN [toks[t] EXCEPT !.state = "deleted"]
        ELSE toks[t]]

(***************************************************************************)
(* Initial state: the layovers as create_layover leaves them, no tokens.   *)
(***************************************************************************)
Init ==
    /\ now = 0
    /\ layovers \in [Layovers -> {NewLayover(h, ci, cm) :
                                    h \in Hotels \cup {NoHotel},
                                    ci \in CheckInChoices, cm \in CheckInMinutes}]
    /\ tokens = [t \in TokenIds |-> NoTokenRow]
    /\ ntok = 0
    /\ send = [l \in Layovers |-> "idle"]
    /\ resp = [r \in Responders |-> IdleResp]
    /\ last = NoCall

Advance ==
    /\ \E d \in ClockSteps : now + d <= MaxTime /\ now' = now + d
    /\ UNCHANGED <<layovers, tokens, ntok, send, resp, last>>

(***************************************************************************)
(* ConfirmationService: token issuance                                     *)
(***************************************************************************)
IssueCall(l, h, outcome, ret) ==
    [op |-> "issue", arg |-> l, hotel |-> h, outcome |-> outcome, ret |-> ret,
     again |-> (last.op = "issue" /\ last.arg = l /\ last.hotel = h)]

\* the invalidated rows of a pair
RetiredHotelTokens(l, h) ==
    {t \in TokenIds : /\ tokens[t].state = "live"
                      /\ tokens[t].layover_id = l
                      /\ tokens[t].hotel_id = h
                      /\ ~tokens[t].is_valid}

\* generate_hotel_confirmation_token that, finding no active token, takes an
\* invalidated row of the pair back into use before it creates a new one
GenerateReusingRow(l, h) ==
    /\ \/ GetActiveHotelToken(l, h) # NoToken
       \/ RetiredHotelTokens(l, h) # {}
       \/ ntok < MaxTokens
    /\ IF GetActiveHotelToken(l, h) # NoToken
       THEN /\ last' = IssueCall(l, h, "ok", GetActiveHotelToken(l, h))
            /\ UNCHANGED <<tokens, ntok>>
       ELSE IF RetiredHotelTokens(l, h) # {}
       THEN /\ tokens' = [tokens EXCEPT ![Min(RetiredHotelTokens(l, h))] =
                              [@ EXCEPT !.is_valid = TRUE,
                                        !.expires_at = now + TokenExpiryHours]]
            /\ last' = IssueCall(l, h, "ok", Min(RetiredHotelTokens(l, h)))
            /\ UNCHANGED ntok
       ELSE IF ~layovers[l].exists
       THEN /\ last' = IssueCall(l, h, "error", NoToken)
            /\ UNCHANGED <<tokens, ntok>>
       ELSE /\ tokens' = CreateToken(tokens, ntok + 1, l, h)
            /\ ntok' = ntok + 1
            /\ last' = IssueCall(l, h, "ok", ntok + 1)
    /\ UNCHANGED <<now, layovers, send, resp>>

\* generate_hotel_confirmation_token(layover_id, hotel_id)
GenerateHotelConfirmationToken(l, h) ==
    /\ GetActiveHotelToken(l, h) # NoToken \/ ntok < MaxTokens
    /\ IF GetActiveHotelToken(l, h) # NoToken
       THEN /\ last' = IssueCall(l, h, "ok", GetActiveHotelToken(l, h))
            /\ UNCHANGED <<tokens, ntok>>
       ELSE IF ~layovers[l].exists
       THEN /\ last' = IssueCall(l, h, "error", NoToken)
            /\ UNCHANGED <<tokens, ntok>>
       ELSE /\ tokens' = CreateToken(tokens, ntok + 1, l, h)
            /\ ntok' = ntok + 1
            /\ last' = IssueCall(l, h, "ok", ntok + 1)
    /\ UNCHANGED <<now, layovers, send, resp>>

\* regenerate_token(layover_id, hotel_id)
RegenerateToken(l, h) ==
    /\ Cardinality(ActiveHotelTokens(l, h)) > 1 \/ ntok < MaxTokens
    /\ LET existing == GetActiveHotelToken(l, h)
           toks1 == IF existing # NoToken THEN InvalidateToken(tokens, existing) ELSE tokens
           still == {t \in ActiveHotelTokens(l, h) : t # existing}
       IN  IF still # {}
           THEN /\ tokens' = toks1
                /\ ntok' = ntok
                /\ last' = [op |-> "regenerate", arg |-> l, hotel |-> h,
                            outcome |-> "ok", ret |-> Min(still), again |-> FALSE]
           ELSE IF ~layovers[l].exists
           THEN /\ tokens' = toks1
                /\ ntok' = ntok
                /\ last' = [op |-> "regenerate", arg |-> l, hotel |-> h,
                            outcome |-> "error", ret |-> NoToken, again |-> FALSE]
           ELSE /\ tokens' = CreateToken(toks1, ntok + 1, l, h)
                /\ ntok' = ntok + 1
                /\ last' = [op |-> "regenerate", arg |-> l, hotel |-> h,
                            outcome |-> "ok", ret |-> ntok + 1, again |-> FALSE]
    /\ UNCHANGED <<now, layovers, send, resp>>

\* NotificationService.send_amendment_notification(layover_id)
SendAmendmentNotification(l) ==
    /\ ntok < MaxTokens
    /\ IF ~layovers[l].exists \/ layovers[l].hotel_id = NoHotel
       THEN /\ last' = Call("notify_amendment", l, "failed")
            /\ UNCHANGED <<tokens, ntok>>
       ELSE /\ tokens' = CreateToken(tokens, ntok + 1, l, layovers[l].hotel_id)
            /\ ntok' = ntok + 1
            /\ last' = [Call("notify_amendment", l, "ok") EXCEPT
                            !.hotel = layovers[l].hotel_id, !.ret = ntok + 1]
    /\ UNCHANGED <<now, layovers, send, resp>>

(***************************************************************************)
(* ConfirmationService: the hotel's side                                   *)
(***************************************************************************)
\* the list of the three responses with ON_HOLD let through
RespondableStatusesWithOnHold == {"SENT", "PENDING", "CHANGES_REQUESTED", "ON_HOLD"}

RespondableStatuses == {"SENT", "PENDING", "CHANGES_REQUESTED"}

\* the checks shared by validate_and_get_layover and the three responses
HotelCheck(t) ==
    IF ValidateToken(t) # "ok" THEN ValidateToken(t)
    ELSE IF ~layovers[tokens[t].layover_id].exists THEN "NotFound"
    ELSE IF layovers[tokens[t].layover_id].status \notin RespondableStatuses
         THEN "InvalidState"
    ELSE "ok"

\* validate_and_get_layover(token)
ValidateAndGetLayover(t) ==
    /\ last' = Call("validate", t, HotelCheck(t))
    /\ UNCHANGED <<now, layovers, tokens, ntok, send, resp>>

\* what each response writes to the layover row
ApplyResponse(lay, a) ==
    LET paused == [lay EXCEPT !.reminders_paused = TRUE]
    IN  CASE a = "confirm" ->
               [paused EXCEPT !.status = "CONFIRMED", !.confirmed_at = now]
          [] a = "decline" ->
               [paused EXCEPT !.status = "DECLINED", !.declined_at = now]
          [] OTHER ->
               [paused EXCEPT !.status = "CHANGES_REQUESTED"]

\* confirm_booking / decline_booking / request_changes up to layover_repo.update
RespondBegin(r, a, t) ==
    /\ resp[r].pc = "idle"
    /\ \A q \in Responders : q < r => resp[q].pc # "idle"
    /\ IF HotelCheck(t) # "ok"
       THEN /\ last' = Call(a, t, HotelCheck(t))
            /\ UNCHANGED <<layovers, resp>>
       ELSE /\ layovers' = [layovers EXCEPT ![tokens[t].layover_id] = ApplyResponse(@, a)]
            /\ resp' = [resp EXCEPT ![r] = [pc |-> "layover_saved", action |-> a, token |-> t]]
            /\ last' = Call(a, t, "saved")
    /\ UNCHANGED <<now, tokens, ntok, send>>

\* ... and from token_repo.mark_as_used to the return
RespondMarkUsed(r) ==
    /\ resp[r].pc = "layover_saved"
    /\ IF GetByToken(resp[r].token)
       THEN /\ tokens' = MarkAsUsed(tokens, resp[r].token)
            /\ last' = Call(resp[r].action, resp[r].token, "ok")
       ELSE /\ last' = Call(resp[r].action, resp[r].token, "NotFound")
            /\ UNCHANGED tokens
    /\ resp' = [resp EXCEPT ![r] = IdleResp]
    /\ UNCHANGED <<now, layovers, ntok, send>>

(***************************************************************************)
(* LayoverService: operator actions                                        *)
(***************************************************************************)
\* the part of every operator action after the status check
Reject(op, l) ==
    /\ last' = Call(op, l, IF layovers[l].exists THEN "InvalidState" ELSE "NotFound")
    /\ UNCHANGED <<layovers, tokens, ntok, send>>

\* send_to_hotel up to the commit of _generate_confirmation_token
SendToHotelBegin(l) ==
    /\ send[l] = "idle"
    /\ IF ~layovers[l].exists \/ layovers[l].status # "DRAFT"
          \/ layovers[l].hotel_id = NoHotel
       THEN Reject("send_to_hotel", l)
       ELSE /\ ntok < MaxTokens
            /\ tokens' = CreateToken(tokens, ntok + 1, l, layovers[l].hotel_id)
            /\ ntok' = ntok + 1
            /\ send' = [send EXCEPT ![l] = "token_minted"]
            /\ last' = [Call("send_to_hotel", l, "token_minted") EXCEPT !.ret = ntok + 1]
            /\ UNCHANGED layovers
    /\ UNCHANGED <<now, resp>>

\* ... the first repository.update: status SENT
SendToHotelSent(l) ==
    /\ send[l] = "token_minted"
    /\ IF layovers[l].exists
       THEN /\ layovers' = [layovers EXCEPT ![l] =
                                [@ EXCEPT !.status = "SENT", !.sent_at = now]]
            /\ send' = [send EXCEPT ![l] = "sent"]
            /\ last' = Call("send_to_hotel", l, "sent")
       ELSE /\ send' = [send EXCEPT ![l] = "idle"]
            /\ last' = Call("send_to_hotel", l, "error")
            /\ UNCHANGED layovers
    /\ UNCHANGED <<now, tokens, ntok, resp>>

\* ... the second repository.update: status PENDING
SendToHotelPending(l) ==
    /\ send[l] = "sent"
    /\ IF layovers[l].exists
       THEN /\ layovers' = [layovers EXCEPT ![l] =
                                [@ EXCEPT !.status = "PENDING", !.pending_at = now]]
            /\ last' = Call("send_to_hotel", l, "ok")
       ELSE /\ last' = Call("send_to_hotel", l, "error")
            /\ UNCHANGED layovers
    /\ send' = [send EXCEPT ![l] = "idle"]
    /\ UNCHANGED <<now, tokens, ntok, resp>>

\* put_on_hold's list with DRAFT let through
HoldableStatusesWithDraft == {"DRAFT", "SENT", "PENDING", "CONFIRMED"}

HoldableStatuses == {"SENT", "PENDING", "CONFIRMED"}

\* put_on_hold
PutOnHold(l) ==
    /\ IF ~layovers[l].exists \/ layovers[l].status \notin HoldableStatuses
       THEN Reject("put_on_hold", l)
       ELSE /\ layovers' = [layovers EXCEPT ![l] =
                                [@ EXCEPT !.status = "ON_HOLD", !.on_hold_at = now,
                                          !.reminders_paused = TRUE]]
            /\ last' = Call("put_on_hold", l, "ok")
            /\ UNCHANGED <<tokens, ntok, send>>
    /\ UNCHANGED <<now, resp>>

\* resume_from_hold that restores PENDING whatever confirmed_at says
ResumeFromHoldToPending(l) ==
    /\ IF ~layovers[l].exists \/ layovers[l].status # "ON_HOLD"
       THEN Reject("resume_from_hold", l)
       ELSE /\ layovers' = [layovers EXCEPT ![l] =
                                [@ EXCEPT !.status = "PENDING",
                                          !.reminders_paused = FALSE]]
            /\ last' = Call("resume_from_hold", l, "ok")
            /\ UNCHANGED <<tokens, ntok, send>>
    /\ UNCHANGED <<now, resp>>

\* resume_from_hold
ResumeFromHold(l) ==
    /\ IF ~layovers[l].exists \/ layovers[l].status # "ON_HOLD"
       THEN Reject("resume_from_hold", l)
       ELSE /\ layovers' = [layovers EXCEPT ![l] =
                                [@ EXCEPT !.status = IF layovers[l].confirmed_at # NULL
                                                     THEN "CONFIRMED" ELSE "PENDING",
                                          !.reminders_paused = FALSE]]
            /\ last' = Call("resume_from_hold", l, "ok")
            /\ UNCHANGED <<tokens, ntok, send>>
    /\ UNCHANGED <<now, resp>>

\* amend_layover
AmendLayover(l) ==
    /\ IF ~layovers[l].exists \/ layovers[l].status # "CONFIRMED"
       THEN Reject("amend_layover", l)
       ELSE /\ layovers' = [layovers EXCEPT ![l] =
                                [@ EXCEPT !.status = "AMENDED",
                                          !.amendment_count = @ + 1,
                                          !.hotel_notified_of_amendment = FALSE]]
            /\ last' = Call("amend_layover", l, "ok")
            /\ UNCHANGED <<tokens, ntok, send>>
    /\ UNCHANGED <<now, resp>>

FinalizableStatuses == {"CONFIRMED", "AMENDED"}

\* finalize_layover
FinalizeLayover(l) ==
    /\ IF ~layovers[l].exists \/ layovers[l].status \notin FinalizableStatuses
       THEN Reject("finalize_layover", l)
       ELSE /\ layovers' = [layovers EXCEPT ![l] =
                                [@ EXCEPT !.status = "COMPLETED", !.completed_at = now]]
            /\ last' = Call("finalize_layover", l, "ok")
            /\ UNCHANGED <<tokens, ntok, send>>
    /\ UNCHANGED <<now, resp>>

\* int(x / y): the quotient cut off towards zero
IntDiv(x, y) == IF x >= 0 THEN x \div y ELSE -((-x) \div y)

\* notice_hours = int((check_in_datetime - now).total_seconds() / 3600)
NoticeHours(lay, t) ==
    IntDiv((lay.check_in_at - t) * MinutesPerHour + lay.check_in_minute,
           MinutesPerHour)

\* cancel_layover
CancelLayover(l) ==
    /\ IF ~layovers[l].exists \/ layovers[l].status = "COMPLETED"
       THEN Reject("cancel_layover", l)
       ELSE /\ layovers' = [layovers EXCEPT ![l] =
                 [@ EXCEPT !.status = "CANCELLED", !.cancelled_at = now,
                           !.cancellation_notice_hours =
                                NoticeHours(layovers[l], now),
                           !.cancellation_charge_applies =
                                NoticeHours(layovers[l], now) < ChargeNoticeHours,
                           !.reminders_paused = TRUE]]
            /\ last' = Call("cancel_layover", l, "ok")
            /\ UNCHANGED <<tokens, ntok, send>>
    /\ UNCHANGED <<now, resp>>

\* delete_layover; the tokens go with the row (cascade="all, delete-orphan")
DeleteLayover(l) ==
    /\ IF ~layovers[l].exists \/ layovers[l].status # "DRAFT"
       THEN Reject("delete_layover", l)
       ELSE /\ layovers' = [layovers EXCEPT ![l] = DeletedLayover]
            /\ tokens' = CascadeDelete(tokens, l)
            /\ last' = Call("delete_layover", l, "ok")
            /\ UNCHANGED <<ntok, send>>
    /\ UNCHANGED <<now, resp>>

(***************************************************************************)
(* SchedulerService: the two background jobs                               *)
(***************************************************************************)
\* layover_repo.get_by_status(LayoverStatus.PENDING): LayoverRepository has no
\* method of that name, so the call is an AttributeError
GetByStatus(st) == "AttributeError"

\* process_reminders whose query and reminder work but which does not skip
\* the rows with reminders_paused
ProcessRemindersIgnoringPause ==
    /\ \E l \in Layovers :
          /\ layovers[l].exists
          /\ layovers[l].status = "PENDING"
          /\ layovers[l].sent_at # NULL
          /\ layovers[l].reminder_count = 0
          /\ now - layovers[l].sent_at >= FirstReminderHours
          /\ layovers' = [layovers EXCEPT ![l] =
                              [@ EXCEPT !.reminder_count = 1,
                                        !.last_reminder_sent_at = now]]
    /\ last' = Call("process_reminders", 0, "ok")
    /\ UNCHANGED <<now, tokens, ntok, send, resp>>

\* process_reminders: the query raises, the outer except rolls back and the
\* finally closes the session; the loop over the rows is never entered
ProcessReminders ==
    /\ last' = Call("process_reminders", 0,
                    IF GetByStatus("PENDING") = "AttributeError"
                    THEN "rolled_back" ELSE "ok")
    /\ UNCHANGED <<now, layovers, tokens, ntok, send, resp>>

\* process_escalations whose query and alert work and which writes the rows
\* it read earlier without looking at their status again
ProcessEscalationsStale ==
    /\ \E l \in Layovers :
          /\ layovers[l].exists
          /\ layovers[l].pending_at # NULL
          /\ layovers[l].sent_at # NULL
          /\ now - layovers[l].sent_at >= EscalationThresholdHours
          /\ layovers' = [layovers EXCEPT ![l] =
                              [@ EXCEPT !.status = "ESCALATED", !.escalated_at = now]]
    /\ last' = Call("process_escalations", 0, "ok")
    /\ UNCHANGED <<now, tokens, ntok, send, resp>>

\* process_escalations: likewise
ProcessEscalations ==
    /\ last' = Call("process_escalations", 0,
                    IF GetByStatus("PENDING") = "AttributeError"
                    THEN "rolled_back" ELSE "ok")
    /\ UNCHANGED <<now, layovers, tokens, ntok, send, resp>>

\* send_hotel_reminder called with all of its arguments: the mail goes out
SendHotelReminderDelivered(l) == "ok"

\* notification_service.send_hotel_reminder as the scheduler calls it, with
\* layover_id and reminder_number only: the required confirmation_token is
\* missing, so the call is a TypeError
SendHotelReminder(l) == "TypeError"

\* trigger_reminder_manually: the operator's reminder outside the schedule
TriggerReminderManually(l) ==
    /\ IF ~layovers[l].exists
       THEN /\ last' = Call("trigger_reminder_manually", l, "NotFound")
            /\ UNCHANGED layovers
       ELSE IF layovers[l].status # "PENDING"
       THEN /\ last' = Call("trigger_reminder_manually", l, "InvalidState")
            /\ UNCHANGED layovers
       ELSE IF layovers[l].reminders_paused
       THEN /\ last' = Call("trigger_reminder_manually", l, "paused")
            /\ UNCHANGED layovers
       ELSE IF SendHotelReminder(l) = "ok"
       THEN /\ layovers' = [layovers EXCEPT ![l] =
                                [@ EXCEPT !.reminder_count = @ + 1,
                                          !.last_reminder_sent_at = now]]
            /\ last' = Call("trigger_reminder_manually", l, "ok")
       ELSE /\ last' = Call("trigger_reminder_manually", l, "error")
            /\ UNCHANGED layovers
    /\ UNCHANGED <<now, tokens, ntok, send, resp>>

(***************************************************************************)
(* The application as deployed: the operator endpoints, the public hotel   *)
(* endpoints (two requests may be in flight at once) and the two scheduler *)
(* jobs.                                                                   *)
(***************************************************************************)
Next ==
    \/ Advance
    \/ \E t \in TokenIds : ValidateAndGetLayover(t)
    \/ \E r \in Responders, a \in HotelActions, t \in TokenIds : RespondBegin(r, a, t)
    \/ \E r \in Responders : RespondMarkUsed(r)
    \/ \E l \in Layovers : SendToHotelBegin(l)
    \/ \E l \in Layovers : SendToHotelSent(l)
    \/ \E l \in Layovers : SendToHotelPending(l)
    \/ \E l \in Layovers : PutOnHold(l)
    \/ \E l \in Layovers : ResumeFromHold(l)
    \/ \E l \in Layovers : AmendLayover(l)
    \/ \E l \in Layovers : FinalizeLayover(l)
    \/ \E l \in Layovers : CancelLayover(l)
    \/ \E l \in Layovers : DeleteLayover(l)
    \/ ProcessReminders
    \/ ProcessEscalations
    \/ \E l \in Layovers : TriggerReminderManually(l)

Spec == Init /\ [][Next]_vars

(***************************************************************************)
(* The token manager driven through all of its entry points, with one      *)
(* hotel responding and the operator actions that create, withdraw or      *)
(* remove the layover the tokens point at.                                 *)
(***************************************************************************)
NextTokens ==
    \/ Advance
    \/ \E l \in Layovers, h \in Hotels : GenerateHotelConfirmationToken(l, h)
    \/ \E l \in Layovers, h \in Hotels : RegenerateToken(l, h)
    \/ \E l \in Layovers : SendAmendmentNotification(l)
    \/ \E t \in TokenIds : ValidateAndGetLayover(t)
    \/ \E a \in HotelActions, t \in TokenIds : RespondBegin(1, a, t)
    \/ RespondMarkUsed(1)
    \/ \E l \in Layovers : SendToHotelBegin(l)
    \/ \E l \in Layovers : SendToHotelSent(l)
    \/ \E l \in Layovers : SendToHotelPending(l)
    \/ \E l \in Layovers : CancelLayover(l)
    \/ \E l \in Layovers : DeleteLayover(l)

SpecTokens == Init /\ [][NextTokens]_vars
(***************************************************************************)
(* Cancellation: the operator endpoints and one hotel, over layovers whose *)
(* check-in falls at different distances from the cancellation, on the     *)
(* hour and off it.                                                        *)
(***************************************************************************)
InitCancel ==
    /\ now = 0
    /\ layovers \in [Layovers -> {NewLayover(h, ci, cm) :
                                    h \in Hotels,
                                    ci \in CancelCheckIns,
                                    cm \in CancelCheckInMinutes}]
    /\ tokens = [t \in TokenIds |-> NoTokenRow]
    /\ ntok = 0
    /\ send = [l \in Layovers |-> "idle"]
    /\ resp = [r \in Responders |-> IdleResp]
    /\ last = NoCall

NextCancel ==
    \/ Advance
    \/ \E a \in HotelActions, t \in TokenIds : RespondBegin(1, a, t)
    \/ RespondMarkUsed(1)
    \/ \E l \in Layovers : SendToHotelBegin(l)
    \/ \E l \in Layovers : SendToHotelSent(l)
    \/ \E l \in Layovers : SendToHotelPending(l)
    \/ \E l \in Layovers : PutOnHold(l)
    \/ \E l \in Layovers : ResumeFromHold(l)
    \/ \E l \in Layovers : AmendLayover(l)
    \/ \E l \in Layovers : FinalizeLayover(l)
    \/ \E l \in Layovers : CancelLayover(l)

SpecCancel == InitCancel /\ [][NextCancel]_vars

(***************************************************************************)
(* The background jobs under their interval triggers: APScheduler fires    *)
(* each job again and again for as long as the application runs, so a tick *)
(* that can run does run (weak fairness of both jobs).  Beside them the    *)
(* requests that take a layover into and out of PENDING.                   *)
(***************************************************************************)
NextLive ==
    \/ Advance
    \/ \E a \in HotelActions, t \in TokenIds : RespondBegin(1, a, t)
    \/ RespondMarkUsed(1)
    \/ \E l \in Layovers : SendToHotelBegin(l)
    \/ \E l \in Layovers : SendToHotelSent(l)
    \/ \E l \in Layovers : SendToHotelPending(l)
    \/ \E l \in Layovers : PutOnHold(l)
    \/ \E l \in Layovers : ResumeFromHold(l)
    \/ \E l \in Layovers : TriggerReminderManually(l)
    \/ ProcessReminders
    \/ ProcessEscalations

SpecLive ==
    /\ Init
    /\ [][NextLive]_vars
    /\ WF_vars(ProcessReminders)
    /\ WF_vars(ProcessEscalations)

(***************************************************************************)
(* Properties                                                              *)
(***************************************************************************)
\* a step of the request or job named op on the row arg (the clock is the
\* only thing that moves without a request)
StepOf(op, arg) == now' = now /\ last'.op = op /\ last'.arg = arg

OperatorOps ==
    {"send_to_hotel", "put_on_hold", "resume_from_hold", "amend_layover",
     "finalize_layover", "cancel_layover", "delete_layover"}

DocumentedEdge(a, b) ==
    \/ a = "DRAFT" /\ b = "SENT"
    \/ a = "SENT" /\ b = "PENDING"
    \/ /\ a \in {"SENT", "PENDING", "CHANGES_REQUESTED"}
       /\ b \in {"CONFIRMED", "DECLINED", "CHANGES_REQUESTED"}
    \/ a \in {"SENT", "PENDING", "CONFIRMED"} /\ b = "ON_HOLD"
    \/ a = "ON_HOLD" /\ b \in {"PENDING", "CONFIRMED"}
    \/ a = "CONFIRMED" /\ b = "AMENDED"
    \/ a \in {"CONFIRMED", "AMENDED"} /\ b = "COMPLETED"
    \/ a # "COMPLETED" /\ b = "CANCELLED"
    \/ a = "PENDING" /\ b = "ESCALATED"

\* C1: every change of a layover's status follows one of the documented
\* edges of the workflow; no other status change ever occurs.
C1_StatusFollowsEdges ==
    [][\A l \in Layovers :
          (/\ layovers[l].exists
           /\ layovers'[l].exists
           /\ layovers'[l].status # layovers[l].status)
          => DocumentedEdge(layovers[l].status, layovers'[l].status)]_vars

\* the sources each operator action is documented to be allowed from
DisallowedSource(op, lay) ==
    CASE op = "send_to_hotel" -> lay.status # "DRAFT" \/ lay.hotel_id = NoHotel
      [] op = "put_on_hold" -> lay.status \notin {"SENT", "PENDING", "CONFIRMED"}
      [] op = "resume_from_hold" -> lay.status # "ON_HOLD"
      [] op = "amend_layover" -> lay.status # "CONFIRMED"
      [] op = "finalize_layover" -> lay.status \notin {"CONFIRMED", "AMENDED"}
      [] op = "cancel_layover" -> lay.status = "COMPLETED"
      [] op = "delete_layover" -> lay.status # "DRAFT"
      [] OTHER -> FALSE

\* C2: an operator action attempted on a layover whose status is not an
\* allowed source for it fails with InvalidState and leaves every field of
\* the layover and every token unchanged.  (A step of send_to_hotel that
\* finds the request already past its check is a later commit of that
\* request, not an attempt.)
C2_RejectedLeavesUnchanged ==
    [][\A l \in Layovers, op \in OperatorOps :
          (/\ StepOf(op, l)
           /\ layovers[l].exists
           /\ op = "send_to_hotel" => send[l] = "idle"
           /\ DisallowedSource(op, layovers[l]))
          => /\ last'.outcome = "InvalidState"
             /\ layovers' = layovers
             /\ tokens' = tokens]_vars

\* an amend was refused on a layover still waiting for its hotel
C2_Witness ==
    /\ last.op = "amend_layover"
    /\ last.outcome = "InvalidState"
    /\ layovers[last.arg].status = "PENDING"

\* C3: in every committed state, a response that has been applied to the
\* layover has its token marked used (used_at set, is_valid false).
C3_TokenUsedWhenApplied ==
    \A r \in Responders :
        resp[r].pc = "layover_saved"
        => /\ tokens[resp[r].token].used_at # NULL
           /\ ~tokens[resp[r].token].is_valid

\* validate as documented
SpecifiedValidate(t) ==
    IF tokens[t].state # "live" THEN "NotFound"
    ELSE IF tokens[t].used_at # NULL \/ ~tokens[t].is_valid THEN "AlreadyUsed"
    ELSE IF now >= tokens[t].expires_at THEN "Expired"
    ELSE "ok"

\* the token's part of what a hotel request answered
TokenVerdict(outcome) ==
    IF outcome \in {"NotFound", "AlreadyUsed", "Expired"} THEN outcome ELSE "ok"

\* C4: validate(token) accepts exactly the tokens that exist, are valid,
\* unused and not yet at their expiry (now < expires_at), and answers
\* NotFound, AlreadyUsed or Expired (now >= expires_at) otherwise.
C4_ValidateAsSpecified ==
    [][\A t \in TokenIds :
          StepOf("validate", t)
          => TokenVerdict(last'.outcome) = SpecifiedValidate(t)]_vars

\* the first commit of a hotel response: no response in flight completes
BeginStep(a, t) ==
    /\ StepOf(a, t)
    /\ \A r \in Responders :
          resp[r].pc = "layover_saved" => resp'[r].pc = "layover_saved"

\* C5: once a hotel response has succeeded with a token, a later response
\* presented with the same token fails with AlreadyUsed and changes neither
\* the layover nor the token.
C5_ConsumeNotReentrant ==
    [][\A a \in HotelActions, t \in TokenIds :
          (/\ BeginStep(a, t)
           /\ tokens[t].state = "live"
           /\ tokens[t].used_at # NULL)
          => /\ last'.outcome = "AlreadyUsed"
             /\ layovers' = layovers
             /\ tokens' = tokens]_vars

\* a consumed token was presented again while the layover could still have
\* taken a response
C5_Witness ==
    /\ last.op \in HotelActions
    /\ last.outcome = "AlreadyUsed"
    /\ tokens[last.arg].used_at # NULL
    /\ layovers[tokens[last.arg].layover_id].status = "CHANGES_REQUESTED"

\* C6: of two responses carrying the same token and processed concurrently
\* at most one is applied to the layover.
C6_OneResponsePerToken ==
    \A r1, r2 \in Responders :
        (/\ r1 # r2
         /\ resp[r1].pc = "layover_saved"
         /\ resp[r2].pc = "layover_saved")
        => resp[r1].token # resp[r2].token

SchedulerOps == {"process_reminders", "process_escalations"}

C8_ValidityWriteOnce ==
    [][\A t \in TokenIds :
          (tokens[t].state = "live" /\ tokens'[t].state = "live")
          => /\ ~tokens[t].is_valid => ~tokens'[t].is_valid
             /\ tokens[t].used_at # NULL => tokens'[t].used_at # NULL]_vars

\* a token was consumed and, after that, another one issued for its pair
C8_Witness ==
    /\ last.op \in {"issue", "regenerate"}
    /\ last.outcome = "ok"
    /\ \E t \in TokenIds :
          /\ t # last.ret
          /\ tokens[t].state = "live"
          /\ tokens[t].used_at # NULL
          /\ ~tokens[t].is_valid

\* usable as documented: valid, unused, not yet at its expiry
Usable(t) ==
    /\ tokens[t].state = "live"
    /\ tokens[t].is_valid
    /\ tokens[t].used_at = NULL
    /\ now < tokens[t].expires_at

\* C9: at every moment there is at most one usable token for any
\* (layover, hotel) pair.
C9_AtMostOneUsable ==
    \A l \in Layovers, h \in Hotels :
        Cardinality({t \in TokenIds : /\ Usable(t)
                                      /\ tokens[t].layover_id = l
                                      /\ tokens[t].hotel_id = h}) <= 1

\* C10: issue called twice in a row for the same pair, the token of the
\* first call still usable, returns that token again and creates no record.
C10_IssueIdempotent ==
    [][\A l \in Layovers, h \in Hotels :
          (/\ StepOf("issue", l)
           /\ last'.hotel = h
           /\ last.op = "issue" /\ last.arg = l /\ last.hotel = h
           /\ last.outcome = "ok"
           /\ Usable(last.ret))
          => /\ last'.outcome = "ok"
             /\ last'.ret = last.ret
             /\ tokens' = tokens
             /\ ntok' = ntok]_vars

\* the second of two calls in a row has returned
C10_Witness ==
    /\ last.op = "issue"
    /\ last.again
    /\ last.outcome = "ok"
    /\ Usable(last.ret)

\* C11: a reminder tick or an escalation tick leaves every field of a
\* layover with reminders_paused unchanged, however long ago it was sent.
C11_PausedUntouched ==
    [][\A l \in Layovers :
          (/\ \E op \in SchedulerOps : StepOf(op, 0)
           /\ layovers[l].exists
           /\ layovers[l].reminders_paused)
          => layovers'[l] = layovers[l]]_vars

\* a tick ran over a paused layover sent more than the escalation threshold
\* ago
C11_Witness ==
    /\ last.op \in SchedulerOps
    /\ \E l \in Layovers :
          /\ layovers[l].exists
          /\ layovers[l].reminders_paused
          /\ layovers[l].sent_at # NULL
          /\ now - layovers[l].sent_at >= EscalationThresholdHours

\* C12: a reminder tick over a PENDING, unpaused layover with no reminder
\* yet and the first threshold elapsed sets reminder_count to 1 and
\* last_reminder_sent_at; with one reminder sent and the second threshold
\* not yet reached it leaves the layover as it is.
C12_ReminderLoop ==
    [][\A l \in Layovers :
          (/\ StepOf("process_reminders", 0)
           /\ layovers[l].exists
           /\ layovers[l].status = "PENDING"
           /\ ~layovers[l].reminders_paused
           /\ layovers[l].sent_at # NULL)
          => /\ (/\ layovers[l].reminder_count = 0
                 /\ now - layovers[l].sent_at >= FirstReminderHours)
                => /\ layovers'[l].reminder_count = 1
                   /\ layovers'[l].last_reminder_sent_at = now
             /\ (/\ layovers[l].reminder_count = 1
                 /\ now - layovers[l].sent_at < SecondReminderHours)
                => layovers'[l] = layovers[l]]_vars

\* C13: an escalation tick over a PENDING, unpaused layover sent at least
\* the escalation threshold ago moves it to ESCALATED and sets escalated_at;
\* a tick over an ESCALATED layover changes nothing.
C13_EscalationLoop ==
    [][\A l \in Layovers :
          (StepOf("process_escalations", 0) /\ layovers[l].exists)
          => /\ (/\ layovers[l].status = "PENDING"
                 /\ ~layovers[l].reminders_paused
                 /\ layovers[l].sent_at # NULL
                 /\ now - layovers[l].sent_at >= EscalationThresholdHours)
                => /\ layovers'[l].status = "ESCALATED"
                   /\ layovers'[l].escalated_at = now
             /\ layovers[l].status = "ESCALATED"
                => layovers'[l] = layovers[l]]_vars

\* C14: send_to_hotel is one atomic operation: no committed state shows the
\* status SENT, a minted token whose layover is still DRAFT, or a PENDING
\* layover without sent_at and pending_at.
C14_SendAtomic ==
    \A l \in Layovers :
        layovers[l].exists
        => /\ layovers[l].status # "SENT"
           /\ \A t \in TokenIds :
                 (tokens[t].state = "live" /\ tokens[t].layover_id = l)
                 => layovers[l].status # "DRAFT"
           /\ layovers[l].status = "PENDING"
              => layovers[l].sent_at # NULL /\ layovers[l].pending_at # NULL

\* C15: resume_from_hold un-pauses the reminders only of a layover that was
\* never confirmed; one with confirmed_at set stays paused.
C15_ResumeKeepsConfirmedPaused ==
    [][\A l \in Layovers :
          (/\ StepOf("resume_from_hold", l)
           /\ layovers[l].exists
           /\ layovers[l].status = "ON_HOLD")
          => layovers'[l].reminders_paused = (layovers[l].confirmed_at # NULL)]_vars

TierPolicy(n) ==
    IF n > 48 THEN "no_charge" ELSE IF n > 24 THEN "24_48h_50" ELSE "lt_24h_100"

TierPercent(n) == IF n > 48 THEN 0 ELSE IF n > 24 THEN 50 ELSE 100

\* C17: a cancellation records the tier of its notice hours: policy,
\* percent, and charge_applies true exactly when the percent is above 0.
C17_ChargeTiers ==
    [][\A l \in Layovers :
          (/\ StepOf("cancel_layover", l)
           /\ last'.outcome = "ok")
          => LET row == layovers'[l]
                 n == row.cancellation_notice_hours
             IN  /\ row.cancellation_charge_policy = TierPolicy(n)
                 /\ row.cancellation_charge_percent = TierPercent(n)
                 /\ row.cancellation_charge_applies = (TierPercent(n) > 0)]_vars

\* floor of the time to check-in, in hours
FloorHours(lay, t) ==
    ((lay.check_in_at - t) * MinutesPerHour + lay.check_in_minute) \div MinutesPerHour

\* C18: the notice hours recorded at cancellation are the floor of the time
\* from the cancellation to the check-in, in hours, also after the check-in.
C18_NoticeHoursFloor ==
    [][\A l \in Layovers :
          (/\ StepOf("cancel_layover", l)
           /\ last'.outcome = "ok")
          => layovers'[l].cancellation_notice_hours = FloorHours(layovers[l], now)]_vars

\* C19: once a layover is COMPLETED its status never changes again.
C19_CompletedTerminal ==
    [][\A l \in Layovers :
          (/\ layovers[l].exists
           /\ layovers[l].status = "COMPLETED")
          => /\ layovers'[l].exists
             /\ layovers'[l].status = "COMPLETED"]_vars

\* C20: a layover that is CONFIRMED, DECLINED, CHANGES_REQUESTED, ON_HOLD or
\* CANCELLED has reminders_paused set.
C20_PausedWhenAnswered ==
    \A l \in Layovers :
        (/\ layovers[l].exists
         /\ layovers[l].status \in
               {"CONFIRMED", "DECLINED", "CHANGES_REQUESTED", "ON_HOLD", "CANCELLED"})
        => layovers[l].reminders_paused

StatusTimestamps ==
    {"sent_at", "pending_at", "confirmed_at", "declined_at", "escalated_at",
     "completed_at", "cancelled_at", "on_hold_at"}

\* the status a timestamp belongs to
StatusOf(f) ==
    CASE f = "sent_at" -> "SENT"
      [] f = "pending_at" -> "PENDING"
      [] f = "confirmed_at" -> "CONFIRMED"
      [] f = "declined_at" -> "DECLINED"
      [] f = "escalated_at" -> "ESCALATED"
      [] f = "completed_at" -> "COMPLETED"
      [] f = "cancelled_at" -> "CANCELLED"
      [] OTHER -> "ON_HOLD"

\* C21: each status timestamp is set if and only if the layover has been in
\* the status it belongs to: a layover entering a status has the timestamp
\* of that status set, a timestamp becomes set only on entering its status
\* and is never cleared again; a PENDING layover has sent_at set.
C21_TimestampIffStatusSeen ==
    [][\A l \in Layovers :
          (layovers[l].exists /\ layovers'[l].exists)
          => /\ \A f \in StatusTimestamps :
                   /\ layovers'[l].status = StatusOf(f) => layovers'[l][f] # NULL
                   /\ layovers[l][f] # NULL => layovers'[l][f] # NULL
                   /\ (layovers[l][f] = NULL /\ layovers'[l][f] # NULL)
                      => layovers'[l].status = StatusOf(f)
             /\ layovers'[l].status = "PENDING" => layovers'[l].sent_at # NULL]_vars

\* C22: a status timestamp, once set, is never changed by a later operation,
\* a repeated cancel of a CANCELLED layover included; only on_hold_at may be
\* written again.
C22_TimestampsWriteOnce ==
    [][\A l \in Layovers, f \in StatusTimestamps \ {"on_hold_at"} :
          (/\ layovers[l].exists
           /\ layovers'[l].exists
           /\ layovers[l][f] # NULL)
          => layovers'[l][f] = layovers[l][f]]_vars

\* C23: a hotel response presented with a usable token is accepted exactly
\* when the owning layover is SENT, PENDING or CHANGES_REQUESTED; in every
\* other status it fails with InvalidState, the token is not consumed and
\* the layover is unchanged.
C23_ResponseOnlyWhileAwaited ==
    [][\A t \in TokenIds :
          (Usable(t) /\ layovers[tokens[t].layover_id].exists)
          => LET awaited == layovers[tokens[t].layover_id].status
                                \in {"SENT", "PENDING", "CHANGES_REQUESTED"}
             IN  /\ \A a \in HotelActions :
                        BeginStep(a, t)
                        => IF awaited
                           THEN last'.outcome = "saved"
                           ELSE /\ last'.outcome = "InvalidState"
                                /\ layovers' = layovers
                                /\ tokens' = tokens
                 /\ StepOf("validate", t)
                    => last'.outcome = IF awaited THEN "ok" ELSE "InvalidState"]_vars

\* a hotel answered with its still usable token while the layover was on
\* hold
C23_Witness ==
    /\ last.op \in HotelActions
    /\ last.outcome = "InvalidState"
    /\ Usable(last.arg)
    /\ layovers[tokens[last.arg].layover_id].status = "ON_HOLD"

\* C24: after regenerate(layover, hotel) has returned, every token issued
\* earlier for the pair fails validation with AlreadyUsed, and the returned
\* token is a different token, which is usable.
C24_RegenerateRetiresAll ==
    [][\A l \in Layovers, h \in Hotels :
          (/\ StepOf("regenerate", l)
           /\ last'.hotel = h
           /\ last'.outcome = "ok")
          => /\ \A t \in TokenIds :
                   (/\ tokens[t].state = "live"
                    /\ tokens[t].layover_id = l
                    /\ tokens[t].hotel_id = h)
                   => /\ tokens'[t].state = "live"
                      /\ ~tokens'[t].is_valid
                      /\ t # last'.ret
             /\ tokens'[last'.ret].state = "live"
             /\ tokens'[last'.ret].is_valid
             /\ tokens'[last'.ret].used_at = NULL
             /\ now < tokens'[last'.ret].expires_at]_vars

\* PENDING, not paused, and sent at least h hours ago
WaitingSince(l, h) ==
    /\ layovers[l].exists
    /\ layovers[l].status = "PENDING"
    /\ ~layovers[l].reminders_paused
    /\ layovers[l].sent_at # NULL
    /\ now - layovers[l].sent_at >= h

\* C26: with the jobs ticking fairly, a layover that stays PENDING and
\* unpaused past the escalation threshold is eventually ESCALATED, and one
\* that stays so past the first reminder threshold eventually has
\* reminder_count >= 1.
C26_PollingProgress ==
    \A l \in Layovers :
        /\ WaitingSince(l, EscalationThresholdHours)
              ~> (layovers[l].status = "ESCALATED"
                  \/ ~WaitingSince(l, EscalationThresholdHours))
        /\ WaitingSince(l, FirstReminderHours)
              ~> (layovers[l].reminder_count >= 1
                  \/ ~WaitingSince(l, FirstReminderHours))

\* C27: amendment_count never exceeds 1: amend is accepted only from
\* CONFIRMED and leads to AMENDED, and nothing leads from AMENDED back to
\* CONFIRMED.
C27_AmendedAtMostOnce ==
    [][\A l \in Layovers :
          /\ layovers'[l].amendment_count <= 1
          /\ (StepOf("amend_layover", l) /\ last'.outcome = "ok")
             => /\ layovers[l].status = "CONFIRMED"
                /\ layovers'[l].status = "AMENDED"
          /\ (layovers[l].exists /\ layovers[l].status = "AMENDED")
             => layovers'[l].status # "CONFIRMED"]_vars

C29_DeadEnds ==
    [][\A l \in Layovers :
          (/\ layovers[l].exists
           /\ layovers[l].status \in {"DECLINED", "ESCALATED"})
          => /\ layovers'[l].exists
             /\ \/ layovers'[l].status = layovers[l].status
                \/ /\ StepOf("cancel_layover", l)
                   /\ layovers'[l].status = "CANCELLED"]_vars

\* C30: put_on_hold and resume_from_hold leave sent_at, reminder_count,
\* last_reminder_sent_at and escalated_at unchanged, so the thresholds are
\* still measured from the original send: a never confirmed layover that
\* was held and resumed to PENDING, sent at least the escalation threshold
\* ago, is escalated by the next escalation tick.
C30_HoldKeepsSendClock ==
    [][\A l \in Layovers :
          /\ (/\ StepOf("put_on_hold", l) \/ StepOf("resume_from_hold", l)
              /\ layovers[l].exists)
             => /\ layovers'[l].sent_at = layovers[l].sent_at
                /\ layovers'[l].reminder_count = layovers[l].reminder_count
                /\ layovers'[l].last_reminder_sent_at = layovers[l].last_reminder_sent_at
                /\ layovers'[l].escalated_at = layovers[l].escalated_at
          /\ (/\ StepOf("process_escalations", 0)
              /\ WaitingSince(l, EscalationThresholdHours)
              /\ layovers[l].on_hold_at # NULL
              /\ layovers[l].confirmed_at = NULL)
             => layovers'[l].status = "ESCALATED"]_vars
====
